---------------------------- MODULE Spec2Model ----------------------------
(***************************************************************************)
(* Model of the two LangGraph workflows of the repository:                 *)
(*   - the customer-support graph of agents.py                             *)
(*       START -> supervisor -> technical|billing|general agent -> END     *)
(*   - the chain-of-thought graph of chain_of_thought_agent.py             *)
(*       START -> coordinator -> step_reasoner (loop) -> conclusion -> END *)
(* and of the two chat turn handlers of app.py that call them.             *)
(*                                                                         *)
(* Message contents are character strings; the Python string operations    *)
(* the code applies to them (lower, title, replace, split, strip, in) are  *)
(* computed character by character.  The emoji of the source texts are     *)
(* written as bracketed tags ("[mag]", "[brain]", "[target]", "[ok]"),     *)
(* which share no character with any text the code searches for.           *)
(***************************************************************************)
EXTENDS Integers, Sequences, FiniteSets, TLC

VARIABLES
    selected_system,  \* which workflow this session drives: "support" | "reasoning"
    api_key,          \* OPENAI_API_KEY is set
    history,          \* the caller's message list (st.session_state.*messages)
    input,            \* the message list handed to the running invocation
    state,            \* the graph's state record (a dict: absent keys are absent)
    pc,               \* "startup" | "idle" | a node name | "done" | "fault" | ...
    caller,           \* who started the running invocation: "chat" | "direct" | "none"
    trace,            \* nodes run so far in this invocation, in order
    llm_log,          \* LLM calls issued in this invocation, in order
    tool_log,         \* tool calls made in this invocation
    fault_kind,       \* why the invocation faulted, "none" otherwise
    turns,            \* invocations started so far
    apps,             \* the compiled graphs that exist
    last              \* what the most recent step did (for step-level properties)

vars == <<selected_system, api_key, history, input, state, pc, caller, trace,
          llm_log, tool_log, fault_kind, turns, apps, last>>

---------------------------------------------------------------------------
(* Bounds of the model *)

\* invocations per behaviour
MaxTurns == 1
\* super-steps after which the graph run is aborted (langgraph's recursion
\* limit; the library's default is larger, every value above 6 lets a
\* complete reasoning run finish)
RecursionLimit == 8
\* the largest step_count a caller hands in with the input
MaxCounter == 5

---------------------------------------------------------------------------
(* Python string operations *)

UpperAlpha == "ABCDEFGHIJKLMNOPQRSTUVWXYZ"
LowerAlpha == "abcdefghijklmnopqrstuvwxyz"
Whitespace == {" ", "\n", "\t"}

\* each upper-case letter in lower case, and each lower-case letter in upper case
LowerOf == [c \in {SubSeq(UpperAlpha, i, i) : i \in 1..26} |->
               LET i == CHOOSE i \in 1..26 : SubSeq(UpperAlpha, i, i) = c
               IN  SubSeq(LowerAlpha, i, i)]
UpperOf == [c \in {SubSeq(LowerAlpha, i, i) : i \in 1..26} |->
               LET i == CHOOSE i \in 1..26 : SubSeq(LowerAlpha, i, i) = c
               IN  SubSeq(UpperAlpha, i, i)]

IsAlpha(c) == c \in DOMAIN LowerOf \/ c \in DOMAIN UpperOf

LowerChar(c) == IF c \in DOMAIN LowerOf THEN LowerOf[c] ELSE c

UpperChar(c) == IF c \in DOMAIN UpperOf THEN UpperOf[c] ELSE c

\* the two halves a string operation is split over
Left(s) == SubSeq(s, 1, Len(s) \div 2)
Right(s) == SubSeq(s, Len(s) \div 2 + 1, Len(s))

RECURSIVE lower(_)
\* str.lower()
lower(s) ==
    IF s = "" THEN ""
    ELSE IF Len(s) = 1 THEN LowerChar(s)
    ELSE lower(Left(s)) \o lower(Right(s))

RECURSIVE TitleFrom(_, _)
\* s title-cased, prevAlpha telling whether a letter precedes s
TitleFrom(s, prevAlpha) ==
    IF s = "" THEN ""
    ELSE IF Len(s) = 1 THEN (IF prevAlpha THEN LowerChar(s) ELSE UpperChar(s))
    ELSE TitleFrom(Left(s), prevAlpha)
             \o TitleFrom(Right(s), IsAlpha(SubSeq(s, Len(s) \div 2, Len(s) \div 2)))

\* str.title(): a letter after a non-letter is upper-cased, any other lower-cased
title(s) == TitleFrom(s, FALSE)

RECURSIVE replace(_, _, _)
\* str.replace(old, new) for a one-character old
replace(s, old, new) ==
    IF s = "" THEN ""
    ELSE IF Len(s) = 1 THEN (IF s = old THEN new ELSE s)
    ELSE replace(Left(s), old, new) \o replace(Right(s), old, new)

\* p occurs in s at position i
OccursAt(s, p, i) == i >= 1 /\ i + Len(p) - 1 <= Len(s) /\ SubSeq(s, i, i + Len(p) - 1) = p

RECURSIVE FindIn(_, _, _, _)
\* the first position in lo..hi at which p occurs in s, 0 if none
FindIn(s, p, lo, hi) ==
    IF lo > hi THEN 0
    ELSE IF lo = hi THEN (IF OccursAt(s, p, lo) THEN lo ELSE 0)
    ELSE LET mid == (lo + hi) \div 2
             first == FindIn(s, p, lo, mid)
         IN  IF first > 0 THEN first ELSE FindIn(s, p, mid + 1, hi)

\* str.find(p), counted from 1: 0 if p does not occur in s
Find(s, p) == FindIn(s, p, 1, Len(s) - Len(p) + 1)

\* p in s
Contains(s, p) == \E i \in 1..(Len(s) - Len(p) + 1) : SubSeq(s, i, i + Len(p) - 1) = p

RECURSIVE split(_, _, _)
\* str.split(sep, maxsplit)
split(s, sep, maxsplit) ==
    LET k == Find(s, sep)
    IN  IF maxsplit = 0 \/ k = 0 THEN <<s>>
        ELSE <<SubSeq(s, 1, k - 1)>>
                 \o split(SubSeq(s, k + Len(sep), Len(s)), sep, maxsplit - 1)

RECURSIVE lstrip(_)
lstrip(s) == IF s # "" /\ Head(s) \in Whitespace THEN lstrip(Tail(s)) ELSE s

RECURSIVE rstrip(_)
rstrip(s) ==
    IF s # "" /\ SubSeq(s, Len(s), Len(s)) \in Whitespace
    THEN rstrip(SubSeq(s, 1, Len(s) - 1))
    ELSE s

\* str.strip()
strip(s) == rstrip(lstrip(s))

\* any(keyword in text for keyword in keywords)
any_keyword(text, keywords) == \E k \in keywords : Contains(text, k)

---------------------------------------------------------------------------
(* Messages and the state dict *)

\* a message that no graph state holds yet has no id (None, written 0)
HumanMessage(text) == [id |-> 0, type |-> "human", content |-> text]
AIMessage(text) == [id |-> 0, type |-> "ai", content |-> text]
ToolMessage(text) == [id |-> 0, type |-> "tool", content |-> text]

\* a message without its id: what the user sees
Body(m) == [type |-> m.type, content |-> m.content]
Bodies(ms) == [i \in 1..Len(ms) |-> Body(ms[i])]

\* s is a prefix of t
IsPrefix(s, t) == Len(s) <= Len(t) /\ SubSeq(t, 1, Len(s)) = s

Max(a, b) == IF a >= b THEN a ELSE b

RECURSIVE MaxId(_)
MaxId(ms) == IF ms = <<>> THEN 0 ELSE Max(Head(ms).id, MaxId(Tail(ms)))

\* messages without an id staying without one, so that they pass for one
\* another in the merge
AssignIds_none(ms, used) == ms

RECURSIVE AssignIds(_, _)
\* every message without an id gets a fresh one (uuid4: here the ids after `used`)
AssignIds(ms, used) ==
    IF ms = <<>> THEN <<>>
    ELSE IF Head(ms).id = 0
         THEN <<[Head(ms) EXCEPT !.id = used + 1]>> \o AssignIds(Tail(ms), used + 1)
         ELSE <<Head(ms)>> \o AssignIds(Tail(ms), used)

RECURSIVE Merge(_, _)
\* a message of `right` whose id is in `left` replaces that message in place,
\* any other is appended
Merge(left, right) ==
    IF right = <<>> THEN left
    ELSE LET m == Head(right)
             hit == {i \in 1..Len(left) : left[i].id = m.id}
         IN  IF hit = {}
             THEN Merge(Append(left, m), Tail(right))
             ELSE Merge([i \in 1..Len(left) |-> IF i \in hit THEN m ELSE left[i]],
                        Tail(right))

\* the reducer of the `messages` channel of MessagesState
add_messages(left, right) ==
    LET used == Max(MaxId(left), MaxId(right))
        L == AssignIds(left, used)
        R == AssignIds(right, Max(used, MaxId(L)))
    IN  Merge(L, R)

\* dict.get(key, default)
Get(st, key, default) == IF key \in DOMAIN st THEN st[key] ELSE default

\* the graph writes a node's returned dict into the state: `messages` through
\* its reducer, every other key by overwriting
ApplyUpdate(st, upd) ==
    [k \in DOMAIN st \cup DOMAIN upd |->
        IF k = "messages"
        THEN IF k \in DOMAIN upd THEN add_messages(st.messages, upd.messages)
             ELSE st.messages
        ELSE IF k \in DOMAIN upd THEN upd[k] ELSE st[k]]

\* the state a graph run starts from: the input written through the reducer
InputState(messages) == [messages |-> add_messages(<<>>, messages)]

\* the outcome of an external call: a text, or a raised fault
Returned(text) == [ok |-> TRUE, content |-> text]
Raised == [ok |-> FALSE, content |-> ""]

---------------------------------------------------------------------------
(* chain_of_thought_agent.py *)

REASONING_GREETING ==
    "Hello! I'm your Chain of Thought Reasoning Agent. I'll help you think through problems step by step. What would you like me to analyze?"

NEED_PROBLEM ==
    "I need a problem to analyze. Please provide a question or issue you'd like me to think through."

NEED_MORE_STEPS == "I need more reasoning steps before I can provide a conclusion."

starting_analysis(problem) ==
    "[brain] **Starting Chain of Thought Analysis**\n\nI need to think through this problem step by step: \""
        \o problem
        \o "\"\n\nLet me break this down systematically using a structured reasoning approach."

\* the titles of step_prompts, in order
step_titles ==
    <<"Problem Analysis", "Information Gathering", "Option Generation",
      "Evaluation & Decision">>

\* the first line of each template of step_prompts (the rest of a template is
\* fixed text), filled with the problem
step_prompt(k, problem) ==
    <<"Analyze this problem: \"", "Based on the problem: \"",
      "For the problem: \"", "Evaluate the options for: \"">>[k]
        \o problem \o "\""

Digit(n) == SubSeq("0123456789", n + 1, n + 1)

\* step_message numbering the steps from 0
step_message_from_zero(step_count, response) ==
    "[mag] **Step " \o Digit(step_count) \o ": " \o step_titles[step_count + 1]
        \o "**\n\n" \o response

\* step_message with a plain header
step_message_plain(step_count, response) ==
    "[mag] Step " \o Digit(step_count + 1) \o ": " \o step_titles[step_count + 1]
        \o "\n\n" \o response

step_message(step_count, response) ==
    "[mag] **Step " \o Digit(step_count + 1) \o ": " \o step_titles[step_count + 1]
        \o "**\n\n" \o response

\* reasoning_coordinator going on from the counter it finds
reasoning_coordinator_keep_count(st) ==
    LET messages == st.messages
    IN  IF messages = <<>>
        THEN [messages |-> <<AIMessage(REASONING_GREETING)>>]
        ELSE LET last_message == messages[Len(messages)]
             IN  IF last_message.type = "human"
                 THEN [messages |->
                           messages \o <<AIMessage(starting_analysis(last_message.content))>>,
                       current_problem |-> last_message.content,
                       step_count |-> Get(st, "step_count", 0)]
                 ELSE st

reasoning_coordinator(st) ==
    LET messages == st.messages
    IN  IF messages = <<>>
        THEN [messages |-> <<AIMessage(REASONING_GREETING)>>]
        ELSE LET last_message == messages[Len(messages)]
             IN  IF last_message.type = "human"
                 THEN [messages |->
                           messages \o <<AIMessage(starting_analysis(last_message.content))>>,
                       current_problem |-> last_message.content,
                       step_count |-> 0]
                 ELSE st

\* the LLM calls step_by_step_reasoner issues on st: none or one
step_reasoner_calls(st) ==
    LET current_problem == Get(st, "current_problem", "")
        step_count == Get(st, "step_count", 0)
    IN  IF current_problem # "" /\ step_count < Len(step_titles)
        THEN <<[node |-> "step_reasoner",
                template |-> step_count + 1,
                problem |-> current_problem,
                prompt |-> step_prompt(step_count + 1, current_problem)]>>
        ELSE <<>>

\* step_by_step_reasoner counting on when all steps are done
step_by_step_reasoner_counting(st, response) ==
    LET current_problem == Get(st, "current_problem", "")
        step_count == Get(st, "step_count", 0)
    IN  IF current_problem = ""
        THEN [messages |-> st.messages \o <<AIMessage(NEED_PROBLEM)>>,
              step_count |-> step_count]
        ELSE IF step_count < Len(step_titles)
             THEN [messages |->
                       st.messages \o <<AIMessage(step_message(step_count, response))>>,
                   current_problem |-> current_problem,
                   step_count |-> step_count + 1]
             ELSE [messages |-> st.messages,
                   current_problem |-> current_problem,
                   step_count |-> step_count + 1]

\* what step_by_step_reasoner returns on st when its LLM call (if any) returns
\* the text `response`
step_by_step_reasoner(st, response) ==
    LET current_problem == Get(st, "current_problem", "")
        step_count == Get(st, "step_count", 0)
    IN  IF current_problem = ""
        THEN [messages |-> st.messages \o <<AIMessage(NEED_PROBLEM)>>,
              step_count |-> step_count]
        ELSE IF step_count < Len(step_titles)
             THEN [messages |->
                       st.messages \o <<AIMessage(step_message(step_count, response))>>,
                   current_problem |-> current_problem,
                   step_count |-> step_count + 1]
             ELSE st

RECURSIVE reasoning_steps(_)
\* the step texts conclusion_synthesizer parses out of the messages
reasoning_steps(messages) ==
    IF messages = <<>> THEN <<>>
    ELSE LET msg == Head(messages)
             parts == split(msg.content, "**", 2)
             found == IF /\ msg.type = "ai"
                         /\ Contains(msg.content, "Step")
                         /\ Contains(msg.content, ":")
                         /\ Contains(msg.content, "**")
                         /\ Len(parts) > 2
                      THEN <<strip(parts[3])>>
                      ELSE <<>>
         IN  found \o reasoning_steps(Tail(messages))

\* the four values interpolated into synthesis_prompt
synthesis_steps(steps) ==
    [i \in 1..4 |-> IF Len(steps) > i - 1 THEN steps[i] ELSE "Not completed"]

conclusion_calls(st) ==
    LET steps == reasoning_steps(Get(st, "messages", <<>>))
    IN  IF Len(steps) < 3 THEN <<>>
        ELSE <<[node |-> "conclusion",
                problem |-> Get(st, "current_problem", ""),
                steps |-> synthesis_steps(steps)]>>

conclusion_text(response) ==
    "[target] **Final Conclusion & Recommendation**\n\n" \o response
        \o "\n\n---\n\n**Reasoning Process Summary:**\n"
        \o "[ok] **Step 1: Problem Analysis** - Identified core issues and key factors\n"
        \o "[ok] **Step 2: Information Gathering** - Determined what information is needed\n"
        \o "[ok] **Step 3: Option Generation** - Explored different approaches and solutions\n"
        \o "[ok] **Step 4: Evaluation & Decision** - Analyzed pros/cons and made recommendations\n\n"
        \o "This systematic approach ensures thorough consideration of all aspects of your question."

\* conclusion_synthesizer refusing only below 2 parsed steps
conclusion_synthesizer_two(st, response) ==
    LET current_problem == Get(st, "current_problem", "")
        steps == reasoning_steps(Get(st, "messages", <<>>))
    IN  IF Len(steps) < 2
        THEN [messages |-> st.messages \o <<AIMessage(NEED_MORE_STEPS)>>,
              step_count |-> Get(st, "step_count", 0)]
        ELSE [messages |-> st.messages \o <<AIMessage(conclusion_text(response))>>,
              current_problem |-> current_problem,
              step_count |-> Get(st, "step_count", 0)]

conclusion_synthesizer(st, response) ==
    LET current_problem == Get(st, "current_problem", "")
        steps == reasoning_steps(Get(st, "messages", <<>>))
    IN  IF Len(steps) < 3
        THEN [messages |-> st.messages \o <<AIMessage(NEED_MORE_STEPS)>>,
              step_count |-> Get(st, "step_count", 0)]
        ELSE [messages |-> st.messages \o <<AIMessage(conclusion_text(response))>>,
              current_problem |-> current_problem,
              step_count |-> Get(st, "step_count", 0)]

\* route_reasoning_flow ending the run when the counter is exactly 4
route_reasoning_flow_end(st) ==
    LET step_count == Get(st, "step_count", 0)
    IN  IF step_count < 4 THEN "step_reasoner"
        ELSE IF step_count > 4 THEN "conclusion"
        ELSE "end"

\* route_reasoning_flow leaving the loop one step early
route_reasoning_flow_early(st) ==
    LET step_count == Get(st, "step_count", 0)
    IN  IF step_count < 3 THEN "step_reasoner"
        ELSE IF step_count >= 3 THEN "conclusion"
        ELSE "end"

route_reasoning_flow(st) ==
    LET step_count == Get(st, "step_count", 0)
    IN  IF step_count < 4 THEN "step_reasoner"
        ELSE IF step_count >= 4 THEN "conclusion"
        ELSE "end"

\* the path map of the conditional edge out of step_reasoner
reasoning_edges ==
    [step_reasoner |-> "step_reasoner", conclusion |-> "conclusion", end |-> "done"]

---------------------------------------------------------------------------
(* agents.py *)

SUPPORT_GREETING == "Hello! How can I help you today?"

\* current_active_agent = None
NoAgent == ""

billing_keywords ==
    {"billing", "payment", "refund", "charge", "invoice", "account balance"}
technical_keywords ==
    {"password", "login", "technical", "api", "connection", "error", "bug", "down",
     "not working"}
general_keywords == {"plan", "upgrade", "downgrade", "account settings", "general"}

\* the general agent also given the password reset
agent_tools_with_reset ==
    [technical_agent |-> {"check_technical_logs", "reset_password", "escalate_to_manager"},
     billing_agent |-> {"check_billing_info", "create_refund", "check_account_status",
                        "escalate_to_manager"},
     general_agent |-> {"check_account_status", "update_service_plan",
                        "escalate_to_manager", "reset_password"}]

\* the tools each create_*_agent binds to its agent
agent_tools ==
    [technical_agent |-> {"check_technical_logs", "reset_password", "escalate_to_manager"},
     billing_agent |-> {"check_billing_info", "create_refund", "check_account_status",
                        "escalate_to_manager"},
     general_agent |-> {"check_account_status", "update_service_plan",
                        "escalate_to_manager"}]

\* the text a tool returns (for customer/ticket 42; where the tool draws a
\* status at random, the first of its list: no code of the repository reads it)
tool_result ==
    [check_account_status |-> "Customer 42 account status: Active",
     check_billing_info |-> "Customer 42 - Current balance: $10.0, Last payment: 2024-01-15",
     create_refund |-> "Refund of $5.0 processed for customer 42. Reason: duplicate. Refund ID: REF-42-001",
     escalate_to_manager |-> "Ticket 42 escalated to manager. Reason: unresolved. Manager will respond within 2 hours.",
     check_technical_logs |-> "Technical logs for customer 42 service 'api': No issues found",
     reset_password |-> "Password reset initiated for customer 42. Reset link sent to registered email.",
     update_service_plan |-> "Service plan updated for customer 42 to 'premium'. Changes will take effect immediately."]

\* the agent a routing message names, from msg.content.lower()
named_agent(lowered) ==
    IF Contains(lowered, "technical agent") THEN "technical_agent"
    ELSE IF Contains(lowered, "billing agent") THEN "billing_agent"
    ELSE IF Contains(lowered, "general agent") THEN "general_agent"
    ELSE NoAgent

\* isinstance(msg, AIMessage) and "routing your request to our" in msg.content.lower()
is_routing_message(msg) ==
    msg.type = "ai" /\ Contains(lower(msg.content), "routing your request to our")

RECURSIVE scan_reversed(_)
\* for msg in reversed(msgs): the agent named by the first routing message met
scan_reversed(msgs) ==
    IF msgs = <<>> THEN NoAgent
    ELSE LET msg == msgs[Len(msgs)]
         IN  IF is_routing_message(msg) THEN named_agent(lower(msg.content))
             ELSE scan_reversed(SubSeq(msgs, 1, Len(msgs) - 1))

\* the scan excludes the current user message
current_active_agent(messages) == scan_reversed(SubSeq(messages, 1, Len(messages) - 1))

is_requesting(user_content) ==
    \/ any_keyword(user_content, billing_keywords)
    \/ any_keyword(user_content, technical_keywords)
    \/ any_keyword(user_content, general_keywords)

\* supervisor_node staying with the active agent whatever the user asks for
supervisor_path_sticky(st) ==
    LET messages == st.messages
    IN  IF messages = <<>> \/ messages[Len(messages)].type # "human" THEN "greeting"
        ELSE IF current_active_agent(messages) # NoAgent THEN "sticky"
             ELSE "classify"

\* which return of supervisor_node the state takes
supervisor_path(st) ==
    LET messages == st.messages
    IN  IF messages = <<>> \/ messages[Len(messages)].type # "human" THEN "greeting"
        ELSE IF /\ current_active_agent(messages) # NoAgent
                /\ ~is_requesting(lower(messages[Len(messages)].content))
             THEN "sticky"
             ELSE "classify"

RECURSIVE context_lines(_)
context_lines(msgs) ==
    IF msgs = <<>> THEN ""
    ELSE LET msg == Head(msgs)
         IN  (IF msg.type = "human" THEN "User: " \o msg.content \o "\n"
              ELSE IF msg.type = "ai" THEN "Assistant: " \o msg.content \o "\n"
              ELSE "")
                 \o context_lines(Tail(msgs))

conversation_context(messages) ==
    IF Len(messages) > 1
    THEN LET recent_messages == SubSeq(messages, Max(1, Len(messages) - 2), Len(messages))
         IN  "\nRecent conversation context:\n"
                 \o context_lines(SubSeq(recent_messages, 1, Len(recent_messages) - 1))
    ELSE ""

\* supervisor_node taking a billing keyword as the decision, without a call
supervisor_calls_shortcut(st) ==
    IF /\ supervisor_path(st) = "classify"
       /\ ~any_keyword(lower(st.messages[Len(st.messages)].content), billing_keywords)
    THEN <<[node |-> "supervisor",
            customer_message |-> st.messages[Len(st.messages)].content,
            context |-> conversation_context(st.messages)]>>
    ELSE <<>>

\* the LLM calls supervisor_node issues on st: none or one classification call
supervisor_calls(st) ==
    IF supervisor_path(st) = "classify"
    THEN <<[node |-> "supervisor",
            customer_message |-> st.messages[Len(st.messages)].content,
            context |-> conversation_context(st.messages)]>>
    ELSE <<>>

\* the parse taking a response without delimiter as the label
parse_choice_whole(content) ==
    LET parts == split(content, "|", 1)
    IN  IF Len(parts) = 2
        THEN [agent_choice |-> strip(parts[1]), reason |-> strip(parts[2])]
        ELSE [agent_choice |-> strip(content), reason |-> ""]

\* agent_choice, reason of the try/except around split("|", 1)
parse_choice(content) ==
    LET parts == split(content, "|", 1)
    IN  IF Len(parts) = 2
        THEN [agent_choice |-> strip(parts[1]), reason |-> strip(parts[2])]
        ELSE [agent_choice |-> "general_agent",
              reason |-> "Unable to categorize, routing to general support"]

handoff_text(agent_choice, reason) ==
    "I'm routing your request to our " \o title(replace(agent_choice, "_", " "))
        \o " team. " \o reason

\* what supervisor_node returns on st when its classification call (if any)
\* returns the text `response`
supervisor_node(st, response) ==
    LET messages == st.messages
        path == supervisor_path(st)
        active == current_active_agent(messages)
        parsed == parse_choice(response)
    IN  IF path = "greeting"
        THEN [messages |-> <<AIMessage(SUPPORT_GREETING)>>]
        ELSE IF path = "sticky"
             THEN [messages |-> messages, active_agent |-> active, next_agent |-> active]
             ELSE [messages |->
                       messages \o <<AIMessage(handoff_text(parsed.agent_choice,
                                                            parsed.reason))>>,
                   active_agent |-> parsed.agent_choice,
                   next_agent |-> parsed.agent_choice]

\* route_to_agent falling back on the technical agent
route_to_agent_technical(st) == Get(st, "next_agent", "technical_agent")

route_to_agent(st) == Get(st, "next_agent", "general_agent")

\* the path map of the conditional edge out of supervisor
support_edges ==
    [technical_agent |-> "technical_agent", billing_agent |-> "billing_agent",
     general_agent |-> "general_agent"]

\* the messages a react agent adds: with a tool call, the calling message (no
\* text) and the tool's result, then the final reply
agent_messages(tools_called, reply) ==
    [i \in 1..(2 * Len(tools_called)) |->
        IF i % 2 = 1 THEN AIMessage("")
        ELSE ToolMessage(tool_result[tools_called[i \div 2]])]
        \o <<AIMessage(reply)>>

---------------------------------------------------------------------------
(* The inputs the model draws from *)

\* what the user types into the support chat
SupportUserTexts == {"thanks, that helps", "refund please", "I forgot my password"}

\* what the classification call returns
ClassificationTexts ==
    {"technical_agent|Password issue",
     "billing_agent|The technical agent cannot refund",
     "I am not sure",
     "technical_agent",
     "sales_agent|Wants to buy"}

\* a specialist's final reply
SpecialistReplies ==
    {"Your request is handled.", "I am routing your request to our billing agent now."}

\* what the user types into the reasoning chat
ReasoningProblems == {"How do I learn Rust?", "", "Step by step: which job?"}

\* what a step call returns: a text that names its template and its problem
StepTexts(call) ==
    {"Thought " \o Digit(call.template) \o " on \"" \o call.problem \o "\"."}

\* what the synthesis call returns
SynthesisTexts == {"Do it."}

Outcomes(texts) == {Returned(t) : t \in texts} \cup {Raised}

\* a finished support turn: "I forgot my password", handed to the technical agent
SupportSeedTurn ==
    LET s0 == InputState(<<HumanMessage("I forgot my password")>>)
        s1 == ApplyUpdate(s0, supervisor_node(s0, "technical_agent|Password issue"))
        s2 == ApplyUpdate(s1, [messages |->
                  s1.messages \o agent_messages(<<"reset_password">>,
                                                "Your request is handled.")])
    IN  s2.messages

\* a finished support turn: "refund please", handed to the billing agent with a
\* reason that speaks of another agent
SupportSeedRefund ==
    LET s0 == InputState(<<HumanMessage("refund please")>>)
        s1 == ApplyUpdate(s0, supervisor_node(s0,
                  "billing_agent|The technical agent cannot refund"))
        s2 == ApplyUpdate(s1, [messages |->
                  s1.messages \o agent_messages(<<"create_refund">>,
                                                "Your request is handled.")])
    IN  s2.messages

\* a finished support turn: "I forgot my password", handed to the technical
\* agent, whose reply speaks of routing
SupportSeedReferral ==
    LET s0 == InputState(<<HumanMessage("I forgot my password")>>)
        s1 == ApplyUpdate(s0, supervisor_node(s0, "technical_agent|Password issue"))
        s2 == ApplyUpdate(s1, [messages |->
                  s1.messages \o agent_messages(<<>>,
                      "I am routing your request to our billing agent now.")])
    IN  s2.messages

RECURSIVE RunSteps(_, _, _)
\* st after n more runs of step_by_step_reasoner, each call answered by `text`
RunSteps(st, n, text) ==
    IF n = 0 THEN st
    ELSE RunSteps(ApplyUpdate(st, step_by_step_reasoner(st, text)), n - 1, text)

\* the state of a reasoning run on `problem` after the coordinator and n steps
ReasoningRun(problem, n) ==
    LET s0 == InputState(<<HumanMessage(problem)>>)
    IN  RunSteps(ApplyUpdate(s0, reasoning_coordinator(s0)), n, "Earlier thought.")

\* a finished reasoning turn
ReasoningSeedTurn ==
    LET s == ReasoningRun("Which laptop?", 4)
    IN  ApplyUpdate(s, conclusion_synthesizer(s, "Buy the light one.")).messages

\* the message lists a session starts from.  The chat handlers start from an
\* empty list; a direct caller of the graph may hold any list
SeedHistories ==
    [support |-> {<<>>, <<AIMessage(SUPPORT_GREETING)>>, SupportSeedTurn,
                  SupportSeedRefund, SupportSeedReferral},
     reasoning |-> {<<>>, <<AIMessage(REASONING_GREETING)>>, ReasoningSeedTurn}]

UserTexts == [support |-> SupportUserTexts, reasoning |-> ReasoningProblems]

EntryNode == [support |-> "supervisor", reasoning |-> "coordinator"]

Specialists == {"technical_agent", "billing_agent", "general_agent"}

GraphNodes == Specialists \cup {"supervisor", "coordinator", "step_reasoner", "conclusion"}

\* the keys other than `messages` of the dict a node returned
Fields(update) == [k \in DOMAIN update \ {"messages"} |-> update[k]]

NoStep ==
    [node |-> "none", pre |-> [messages |-> <<>>], calls |-> <<>>, out |-> <<>>,
     ok |-> FALSE, answer |-> Raised]

---------------------------------------------------------------------------
(* The session: app.py, and the direct callers of the graphs *)

Init ==
    /\ selected_system \in {"support", "reasoning"}
    /\ api_key \in BOOLEAN
    /\ history \in SeedHistories[selected_system]
    /\ input = <<>>
    /\ state = [messages |-> <<>>]
    /\ pc = "startup"
    /\ caller = "none"
    /\ trace = <<>>
    /\ llm_log = <<>>
    /\ tool_log = <<>>
    /\ fault_kind = "none"
    /\ turns = 0
    /\ apps = {}
    /\ last = NoStep

\* create_support_graph builds the three agents, each calling get_llm(), which
\* raises without a credential; create_reasoning_graph calls no get_llm()
CreateGraphs ==
    /\ pc = "startup"
    /\ apps' = IF api_key THEN {"support", "reasoning"} ELSE {"reasoning"}
    /\ pc' = "idle"
    /\ UNCHANGED <<selected_system, api_key, history, input, state, caller, trace,
                   llm_log, tool_log, fault_kind, turns, last>>

\* graph.invoke({"messages": messages})
StartRun(messages, who) ==
    LET st0 == InputState(messages)
    IN  /\ history' = st0.messages
        /\ input' = st0.messages
        /\ state' = st0
        /\ pc' = EntryNode[selected_system]
        /\ caller' = who
        /\ trace' = <<>>
        /\ llm_log' = <<>>
        /\ tool_log' = <<>>
        /\ fault_kind' = "none"
        /\ turns' = turns + 1
        /\ last' = NoStep
        /\ UNCHANGED <<selected_system, api_key, apps>>

\* the chat turn handler up to the invoke: it runs on a non-empty prompt;
\* without a key it stops; the user message is appended to the session's list,
\* and the list is invoked
ChatInput(prompt) ==
    /\ pc = "idle"
    /\ prompt # ""
    /\ turns < MaxTurns
    /\ api_key
    /\ selected_system \in apps
    /\ StartRun(Append(history, HumanMessage(prompt)), "chat")

\* a caller of the compiled graph other than the chat (the test functions):
\* it invokes the list it holds, or a new list of one user message
DirectInvoke(messages) ==
    /\ pc = "idle"
    /\ turns < MaxTurns
    /\ selected_system \in apps
    /\ StartRun(messages, "direct")

\* the message types each chat turn handler stores
StoredTypes == [support |-> {"ai", "tool"}, reasoning |-> {"ai"}]

\* a support chat storing the assistant's messages only, as the reasoning chat
StoreResult_ai_only ==
    /\ pc = "done"
    /\ caller = "chat"
    /\ LET result == state.messages
           new_messages == SubSeq(result, Len(history) + 1, Len(result))
       IN  history' = history \o SelectSeq(new_messages, LAMBDA m : m.type = "ai")
    /\ pc' = "idle"
    /\ UNCHANGED <<selected_system, api_key, input, state, caller, trace, llm_log,
                   tool_log, fault_kind, turns, apps, last>>

\* the chat turn handler after invoke returned: the messages past the
\* session's list are stored
StoreResult ==
    /\ pc = "done"
    /\ caller = "chat"
    /\ LET result == state.messages
           new_messages == SubSeq(result, Len(history) + 1, Len(result))
       IN  history' = history \o SelectSeq(new_messages,
                                           LAMBDA m : m.type \in StoredTypes[selected_system])
    /\ pc' = "idle"
    /\ UNCHANGED <<selected_system, api_key, input, state, caller, trace, llm_log,
                   tool_log, fault_kind, turns, apps, last>>

\* the chat turn handler's except branch: the error is shown
HandleError ==
    /\ pc = "fault"
    /\ caller = "chat"
    /\ pc' = "idle"
    /\ UNCHANGED <<selected_system, api_key, history, input, state, caller, trace,
                   llm_log, tool_log, fault_kind, turns, apps, last>>

---------------------------------------------------------------------------
(* The graph runs *)

\* the node raised: the run ends, no state record is returned
NodeFaults(node, calls, kind) ==
    /\ pc' = "fault"
    /\ fault_kind' = kind
    /\ trace' = Append(trace, node)
    /\ llm_log' = llm_log \o calls
    /\ last' = [node |-> node, pre |-> state, calls |-> calls, out |-> <<>>,
                ok |-> FALSE, answer |-> Raised]
    /\ UNCHANGED <<selected_system, api_key, history, input, state, caller,
                   tool_log, turns, apps>>

\* the node returned `update`, and the conditional edge after it raised: the
\* run ends, the update is not written
EdgeFaults(node, calls, answer, update) ==
    /\ pc' = "fault"
    /\ fault_kind' = "routing"
    /\ trace' = Append(trace, node)
    /\ llm_log' = llm_log \o calls
    /\ last' = [node |-> node, pre |-> state, calls |-> calls, out |-> Fields(update),
                ok |-> FALSE, answer |-> answer]
    /\ UNCHANGED <<selected_system, api_key, history, input, state, caller,
                   tool_log, turns, apps>>

\* the node, its calls answered by `answer`, returned `update`, and the run goes
\* on at `target`
NodeReturns(node, calls, answer, update, target) ==
    /\ state' = ApplyUpdate(state, update)
    /\ pc' = target
    /\ trace' = Append(trace, node)
    /\ llm_log' = llm_log \o calls
    /\ last' = [node |-> node, pre |-> state, calls |-> calls, out |-> Fields(update),
                ok |-> TRUE, answer |-> answer]
    /\ UNCHANGED <<selected_system, api_key, history, input, caller, fault_kind,
                   turns, apps>>

\* the answers to the calls a node issues: no call, no answer to draw
Answers(calls, texts) == IF calls = <<>> THEN {Returned("")} ELSE Outcomes(texts)

\* a supervisor whose try block also holds the classification call: a raised
\* call is taken for an unparsable response
Supervisor_catching ==
    /\ pc = "supervisor"
    /\ Len(trace) < RecursionLimit
    /\ LET calls == supervisor_calls(state)
       IN  \E answer \in Answers(calls, ClassificationTexts) :
               LET update == supervisor_node(state, answer.content)
                   target == route_to_agent(ApplyUpdate(state, update))
               IN  IF target \in DOMAIN support_edges
                   THEN /\ NodeReturns("supervisor", calls, answer, update,
                                       support_edges[target])
                        /\ UNCHANGED tool_log
                   ELSE EdgeFaults("supervisor", calls, answer, update)

\* supervisor_node, then the conditional edge route_to_agent
Supervisor ==
    /\ pc = "supervisor"
    /\ Len(trace) < RecursionLimit
    /\ LET calls == supervisor_calls(state)
       IN  \E answer \in Answers(calls, ClassificationTexts) :
               IF calls # <<>> /\ ~api_key
               THEN NodeFaults("supervisor", <<>>, "credential")
               ELSE IF ~answer.ok
               THEN NodeFaults("supervisor", calls, "external")
               ELSE LET update == supervisor_node(state, answer.content)
                        target == route_to_agent(ApplyUpdate(state, update))
                    IN  IF target \in DOMAIN support_edges
                        THEN /\ NodeReturns("supervisor", calls, answer, update,
                                            support_edges[target])
                             /\ UNCHANGED tool_log
                        ELSE \* the path map has no such key: the edge raises
                             EdgeFaults("supervisor", calls, answer, update)

\* one of the three react agents: it may call tools of its own tool list (here
\* at most one call) and ends with a reply
Specialist(agent) ==
    /\ pc = agent
    /\ Len(trace) < RecursionLimit
    /\ LET calls == <<[node |-> agent, tools |-> agent_tools[agent]]>>
       IN  \/ NodeFaults(agent, calls, "external")
           \/ \E tools_called \in {<<>>} \cup {<<t>> : t \in agent_tools[agent]},
                 reply \in SpecialistReplies :
                  /\ NodeReturns(agent, calls, Returned(reply),
                                 [messages |->
                                      state.messages \o agent_messages(tools_called, reply)],
                                 "done")
                  /\ tool_log' = tool_log
                         \o [i \in 1..Len(tools_called) |->
                                [agent |-> agent, tool |-> tools_called[i]]]

Coordinator ==
    /\ pc = "coordinator"
    /\ Len(trace) < RecursionLimit
    /\ NodeReturns("coordinator", <<>>, Returned(""), reasoning_coordinator(state),
                   "step_reasoner")
    /\ UNCHANGED tool_log

\* step_by_step_reasoner, then the conditional edge route_reasoning_flow
StepReasoner ==
    /\ pc = "step_reasoner"
    /\ Len(trace) < RecursionLimit
    /\ LET calls == step_reasoner_calls(state)
       IN  \E answer \in Answers(calls, IF calls = <<>> THEN {} ELSE StepTexts(calls[1])) :
               IF ~api_key
               THEN \* get_llm() is the node's first statement
                    NodeFaults("step_reasoner", <<>>, "credential")
               ELSE IF ~answer.ok
               THEN NodeFaults("step_reasoner", calls, "external")
               ELSE LET update == step_by_step_reasoner(state, answer.content)
                        target == route_reasoning_flow(ApplyUpdate(state, update))
                    IN  /\ NodeReturns("step_reasoner", calls, answer, update,
                                       reasoning_edges[target])
                        /\ UNCHANGED tool_log

Conclusion ==
    /\ pc = "conclusion"
    /\ Len(trace) < RecursionLimit
    /\ LET calls == conclusion_calls(state)
       IN  \E answer \in Answers(calls, SynthesisTexts) :
               IF ~api_key
               THEN NodeFaults("conclusion", <<>>, "credential")
               ELSE IF ~answer.ok
               THEN NodeFaults("conclusion", calls, "external")
               ELSE /\ NodeReturns("conclusion", calls, answer,
                                   conclusion_synthesizer(state, answer.content), "done")
                    /\ UNCHANGED tool_log

\* the graph has run RecursionLimit super-steps without reaching END
RecursionAbort ==
    /\ pc \in GraphNodes
    /\ Len(trace) >= RecursionLimit
    /\ pc' = "fault"
    /\ fault_kind' = "recursion"
    /\ UNCHANGED <<selected_system, api_key, history, input, state, caller, trace,
                   llm_log, tool_log, turns, apps, last>>

Next ==
    \/ CreateGraphs
    \/ \E prompt \in UserTexts[selected_system] : ChatInput(prompt)
    \/ \E messages \in {history} \cup {<<HumanMessage(q)>> : q \in UserTexts[selected_system]} :
           DirectInvoke(messages)
    \/ StoreResult
    \/ HandleError
    \/ Supervisor
    \/ \E agent \in Specialists : Specialist(agent)
    \/ Coordinator
    \/ StepReasoner
    \/ Conclusion
    \/ RecursionAbort

Spec == Init /\ [][Next]_vars

---------------------------------------------------------------------------
(* The reasoning graph invoked with a whole state record *)

\* invoke() takes a value for every key of ReasoningState, not only `messages`;
\* Absent and NoCounter stand for a key the caller leaves out
Absent == "<absent>"
NoCounter == -1

InputRecord(messages, current_problem, step_count) ==
    [k \in {"messages"}
            \cup (IF current_problem = Absent THEN {} ELSE {"current_problem"})
            \cup (IF step_count = NoCounter THEN {} ELSE {"step_count"}) |->
        IF k = "messages" THEN add_messages(<<>>, messages)
        ELSE IF k = "current_problem" THEN current_problem
        ELSE step_count]

\* the message lists handed in: empty, a greeting, a run stopped after 0..4
\* steps, a finished turn
RecordHistories ==
    {<<>>, <<AIMessage(REASONING_GREETING)>>, ReasoningSeedTurn}
        \cup {ReasoningRun("Which laptop?", n).messages : n \in 0..4}
        \cup {<<HumanMessage("Which laptop?")>>, <<HumanMessage("")>>}

RecordInit ==
    /\ selected_system = "reasoning"
    /\ api_key \in BOOLEAN
    /\ \E messages \in RecordHistories,
          current_problem \in {Absent, "", "Which laptop?"},
          step_count \in {NoCounter} \cup 0..MaxCounter :
           /\ state = InputRecord(messages, current_problem, step_count)
           /\ history = state.messages
           /\ input = state.messages
    /\ pc = "coordinator"
    /\ caller = "direct"
    /\ trace = <<>>
    /\ llm_log = <<>>
    /\ tool_log = <<>>
    /\ fault_kind = "none"
    /\ turns = 1
    /\ apps = {"reasoning"}
    /\ last = NoStep

RecordNext ==
    \/ Coordinator
    \/ StepReasoner
    \/ Conclusion
    \/ RecursionAbort

RecordSpec == RecordInit /\ [][RecordNext]_vars

---------------------------------------------------------------------------
(* Properties *)

\* the value the code reads as the step counter
Counter(st) == Get(st, "step_count", 0)

\* the run is between START and END, or has just ended
Running == pc \in GraphNodes \cup {"done", "fault"}

\* the most recent step was `node`, and it returned and the run went on (neither
\* the node nor the edge after it raised)
Returned_(node) == last.node = node /\ last.ok

\* the bodies of the messages the most recent step added after those of `pre`
Added == SubSeq(Bodies(state.messages), Len(last.pre.messages) + 1, Len(state.messages))

\* the most recent step kept every message it found
KeptAll == IsPrefix(Bodies(last.pre.messages), Bodies(state.messages))

\* "**" occurs in s twice without overlap
TwoMarks(s) ==
    \E i, j \in 1..Len(s) : i + 2 <= j /\ OccursAt(s, "**", i) /\ OccursAt(s, "**", j)

\* an assistant message shaped like a step: it has "Step", ":" and a header
\* between two "**"
StepShaped(m) ==
    /\ m.type = "ai"
    /\ Contains(m.content, "Step")
    /\ Contains(m.content, ":")
    /\ TwoMarks(m.content)

StepShapedCount(messages) ==
    Cardinality({i \in 1..Len(messages) : StepShaped(messages[i])})

\* C7: whenever the conclusion synthesizer runs on a history with fewer than 3
\* step-shaped assistant messages, it adds exactly the blocking message, issues
\* no LLM call and leaves the step counter as it was.
C7_RefusesOnFewSteps ==
    (Returned_("conclusion") /\ StepShapedCount(last.pre.messages) < 3)
        => /\ KeptAll
           /\ Added = <<Body(AIMessage(NEED_MORE_STEPS))>>
           /\ last.calls = <<>>
           /\ \A i \in 1..Len(llm_log) : llm_log[i].node # "conclusion"
           /\ Counter(state) = Counter(last.pre)

\* the synthesizer refused on a history that holds some, but too few, steps
C7_Witness ==
    /\ Returned_("conclusion")
    /\ StepShapedCount(last.pre.messages) = 2
    /\ Added = <<Body(AIMessage(NEED_MORE_STEPS))>>
    /\ Counter(state) = 4

\* the number of times `node` ran in this invocation
Runs(node) == Cardinality({i \in 1..Len(trace) : trace[i] = node})

\* C1: every reasoning run ends after the coordinator, at most 4 runs of
\* step_reasoner and the conclusion: step_reasoner is not entered a fifth time
\* and the run is never cut off by the recursion limit.
C1_AtMostFourSteps ==
    selected_system = "reasoning"
        => Runs("step_reasoner") <= 4 /\ fault_kind # "recursion"

\* C2: a fresh routing decision of the supervisor is one of the three labels,
\* whatever text the classification call returned, so the conditional edge has
\* a target.
C2_DecisionIsALabel ==
    /\ (last.node = "supervisor" /\ last.calls # <<>> /\ "next_agent" \in DOMAIN last.out)
           => last.out.next_agent \in Specialists
    /\ fault_kind # "routing"

\* C6: each run of the stepper raises the step counter by exactly 1, and the
\* counter stays within 0..4.
C6_CounterStepsByOne ==
    /\ Running => Counter(state) \in 0..4
    /\ Returned_("step_reasoner") => Counter(state) = Counter(last.pre) + 1

\* C8: an invocation of the support workflow in which no external call faults
\* runs the supervisor once and then exactly one specialist, the one the
\* supervisor decided on, which calls only tools of its own list.
C8_SupervisorThenOneSpecialist ==
    (selected_system = "support" /\ pc \in {"done", "fault"} /\ fault_kind # "external")
        => /\ Len(trace) = 2
           /\ trace[1] = "supervisor"
           /\ trace[2] \in Specialists
           /\ trace[2] = route_to_agent(state)
           /\ \A i \in 1..Len(tool_log) :
                  tool_log[i].agent = trace[2] /\ tool_log[i].tool \in agent_tools[trace[2]]

\* s starts with the text p
StartsWith(s, p) == Len(s) >= Len(p) /\ SubSeq(s, 1, Len(p)) = p

\* the text every handoff announcement of the supervisor starts with
ANNOUNCEMENT == "I'm routing your request to our "

\* the most recent step was the supervisor (returned or not), run on a list
\* that ends with a user message
SupervisorRan ==
    /\ last.node = "supervisor"
    /\ last.pre.messages # <<>>
    /\ last.pre.messages[Len(last.pre.messages)].type = "human"

\* the user message the supervisor's most recent step was about, lowercased
UserContent == lower(last.pre.messages[Len(last.pre.messages)].content)

\* the specialist the supervisor's most recent step found active
ActiveBefore == current_active_agent(last.pre.messages)

\* the user message names a keyword of one of the three lists
NamesKeyword ==
    \E k \in billing_keywords \cup technical_keywords \cup general_keywords :
        Contains(UserContent, k)

\* the team a handoff announcement hands the request to: the label the
\* supervisor put between "our" and "team."
Handed(content) ==
    IF StartsWith(content, ANNOUNCEMENT \o "Technical Agent team.") THEN "technical_agent"
    ELSE IF StartsWith(content, ANNOUNCEMENT \o "Billing Agent team.") THEN "billing_agent"
    ELSE IF StartsWith(content, ANNOUNCEMENT \o "General Agent team.") THEN "general_agent"
    ELSE NoAgent

\* the positions of the handoff announcements before the latest message
Handoffs ==
    {i \in 1..(Len(last.pre.messages) - 1) :
        /\ last.pre.messages[i].type = "ai"
        /\ StartsWith(last.pre.messages[i].content, ANNOUNCEMENT)}

\* the specialist the most recent handoff announcement handed the request to
PreviouslyActive ==
    IF Handoffs = {} THEN NoAgent
    ELSE Handed(last.pre.messages[CHOOSE i \in Handoffs : \A j \in Handoffs : j <= i].content)

\* C3: when a specialist is active (the history holds a handoff announcement to
\* it) and the latest user message has no keyword of the three lists, the
\* supervisor decides on that specialist again, issues no classification call
\* and adds no message.
C3_StickyReusesActive ==
    (SupervisorRan /\ PreviouslyActive # NoAgent /\ ~NamesKeyword)
        => /\ last.calls = <<>>
           /\ llm_log = <<>>
           /\ last.out = [active_agent |-> PreviouslyActive,
                          next_agent |-> PreviouslyActive]
           /\ pc = PreviouslyActive
           /\ Bodies(state.messages) = Bodies(last.pre.messages)

\* C4: when a specialist is active and the latest user message has a keyword of
\* one of the three lists, the supervisor does not stay with the specialist
\* unasked: it issues exactly one classification call, and when that call
\* returns it adds exactly one message, a new handoff announcement.
C4_KeywordReclassifies ==
    (SupervisorRan /\ (ActiveBefore # NoAgent \/ PreviouslyActive # NoAgent)
        /\ NamesKeyword)
        => /\ Len(last.calls) = 1
           /\ last.calls[1].node = "supervisor"
           /\ Len(llm_log) = 1
           /\ fault_kind \in {"none", "routing"} =>
                  /\ DOMAIN last.out = {"active_agent", "next_agent"}
                  /\ last.out.next_agent = last.out.active_agent
           /\ Returned_("supervisor") =>
                  /\ KeptAll
                  /\ Len(Added) = 1
                  /\ Added[1].type = "ai"
                  /\ StartsWith(Added[1].content, ANNOUNCEMENT)

\* "refund please" after a technical handoff: one call, and the billing team
\* is announced
C4_Witness ==
    /\ Returned_("supervisor")
    /\ ActiveBefore = "technical_agent"
    /\ UserContent = "refund please"
    /\ Len(last.calls) = 1
    /\ Len(Added) = 1
    /\ StartsWith(Added[1].content, ANNOUNCEMENT \o "Billing Agent team.")
    /\ pc = "billing_agent"

\* no message before the latest one is a handoff announcement
NoPriorHandoff == Handoffs = {}

\* C5: when the history has no handoff announcement and the latest user
\* message has a billing keyword, the supervisor does not take the sticky path:
\* it issues a classification call.
C5_BillingKeywordAlwaysClassifies ==
    (SupervisorRan /\ NoPriorHandoff
        /\ \E k \in billing_keywords : Contains(UserContent, k))
        => /\ Len(last.calls) = 1
           /\ last.calls[1].node = "supervisor"
           /\ last.calls[1].customer_message
                  = last.pre.messages[Len(last.pre.messages)].content
           /\ llm_log = last.calls
           /\ Returned_("supervisor") => Len(Added) = 1

\* "refund please" as the first message of a conversation: a call is issued
C5_Witness ==
    /\ SupervisorRan
    /\ Len(last.pre.messages) = 1
    /\ UserContent = "refund please"
    /\ Len(llm_log) = 1
    /\ pc \in Specialists

\* the ids of the messages of ms
Ids(ms) == {ms[i].id : i \in 1..Len(ms)}

\* C9: within an invocation of either workflow the message list only grows at
\* its end: after every step the caller's list and the list the step found are
\* unchanged prefixes of the current list, and what the step added are new
\* messages, none of them a second copy of a message already in the list.
C9_AppendOnly ==
    Running
        => /\ IsPrefix(input, state.messages)
           /\ IsPrefix(Bodies(history), Bodies(state.messages))
           /\ IsPrefix(last.pre.messages, state.messages)
           /\ Cardinality(Ids(state.messages)) = Len(state.messages)
           /\ \A i \in (Len(last.pre.messages) + 1)..Len(state.messages) :
                  state.messages[i].id \notin Ids(last.pre.messages)

\* a support run on a list of several messages has ended: the sticky step
\* returned the whole list and the specialist added to it
C9_Witness ==
    /\ pc = "done"
    /\ selected_system = "support"
    /\ trace[1] = "supervisor"
    /\ llm_log[1].node # "supervisor"
    /\ Len(input) > 1
    /\ Len(state.messages) > Len(input)

\* the headers of the four steps, and the first lines of their prompts
StepHeaders ==
    <<"[mag] **Step 1: Problem Analysis**\n\n",
      "[mag] **Step 2: Information Gathering**\n\n",
      "[mag] **Step 3: Option Generation**\n\n",
      "[mag] **Step 4: Evaluation & Decision**\n\n">>

PromptHeads ==
    <<"Analyze this problem: \"", "Based on the problem: \"",
      "For the problem: \"", "Evaluate the options for: \"">>

\* the messages this invocation added that are headed like a step
StepMessages ==
    SelectSeq(SubSeq(state.messages, Len(input) + 1, Len(state.messages)),
              LAMBDA m : m.type = "ai" /\ StartsWith(m.content, "[mag] **Step "))

\* the problem of the run
Problem(st) == Get(st, "current_problem", "")

\* C10: in a reasoning run with a non-empty problem, a run of the stepper at
\* counter k < 4 (with a credential) issues exactly one LLM call, built from
\* template k filled with the problem, and when the call returns adds exactly
\* one message, headed with step number k+1 and title k; so the step messages
\* of the run are the four steps in their fixed order, each once.
C10_StepsInFixedOrder ==
    /\ (/\ last.node = "step_reasoner"
        /\ Problem(last.pre) # ""
        /\ Counter(last.pre) < 4
        /\ fault_kind # "credential")
           => /\ Len(last.calls) = 1
              /\ last.calls[1].prompt
                     = PromptHeads[Counter(last.pre) + 1] \o Problem(last.pre) \o "\""
              /\ Returned_("step_reasoner") =>
                     /\ KeptAll
                     /\ Len(Added) = 1
                     /\ Added[1].type = "ai"
                     /\ StartsWith(Added[1].content, StepHeaders[Counter(last.pre) + 1])
    /\ (selected_system = "reasoning" /\ Running /\ Problem(state) # "")
           => /\ Len(StepMessages) = Counter(state)
              /\ Len(StepMessages) <= 4
              /\ \A i \in 1..Len(StepMessages) :
                     StartsWith(StepMessages[i].content, StepHeaders[i])
              /\ pc = "done" => Len(StepMessages) = 4

\* a run on a problem has ended with its four steps, the last of them the
\* evaluation
C10_Witness ==
    /\ selected_system = "reasoning"
    /\ pc = "done"
    /\ Problem(state) = "How do I learn Rust?"
    /\ Len(StepMessages) = 4
    /\ StartsWith(StepMessages[4].content, "[mag] **Step 4: Evaluation & Decision**")
    /\ Len(llm_log) = 5

\* the list the run was invoked on ends with a user message
EndsWithUser(messages) ==
    messages # <<>> /\ messages[Len(messages)].type = "human"

\* the text of the latest message of the list
LatestText(messages) == messages[Len(messages)].content

\* C11: run on a history that ends with a user message, the coordinator sets
\* the problem to that message's text, sets the step counter to 0 whatever it
\* was, and adds exactly one message, the starting-analysis announcement; no
\* later step of the invocation changes the problem.
C11_CoordinatorCapturesProblem ==
    /\ (Returned_("coordinator") /\ EndsWithUser(last.pre.messages))
           => /\ "current_problem" \in DOMAIN state
              /\ state.current_problem = LatestText(last.pre.messages)
              /\ "step_count" \in DOMAIN state
              /\ state.step_count = 0
              /\ last.calls = <<>>
              /\ KeptAll
              /\ Added = <<Body(AIMessage(starting_analysis(LatestText(last.pre.messages))))>>
    /\ (trace # <<>> /\ EndsWithUser(input))
           => /\ "current_problem" \in DOMAIN state
              /\ state.current_problem = LatestText(input)

\* the coordinator reset a counter of 3 that the caller handed in
C11_Witness ==
    /\ Returned_("coordinator")
    /\ EndsWithUser(last.pre.messages)
    /\ Counter(last.pre) = 3
    /\ Counter(state) = 0
    /\ Problem(state) = "Which laptop?"
    /\ Problem(last.pre) = ""

RECURSIVE InOrder(_, _)
\* the texts of ps occur in s one after the other, in the order of ps
InOrder(s, ps) ==
    IF ps = <<>> THEN TRUE
    ELSE LET k == Find(s, Head(ps))
         IN  k > 0 /\ InOrder(SubSeq(s, k + Len(Head(ps)), Len(s)), Tail(ps))

\* the four step titles as the conclusion block names them
StepTitles ==
    <<"Step 1: Problem Analysis", "Step 2: Information Gathering",
      "Step 3: Option Generation", "Step 4: Evaluation & Decision">>

\* the most recent step was the n-th run of the stepper in a run on a problem
NthStepperRun(n) ==
    /\ last.node = "step_reasoner"
    /\ Runs("step_reasoner") = n
    /\ Problem(last.pre) # ""

\* the conclusion step is next, or ran and added one block that names the four
\* step titles in order
ConclusionFollows ==
    /\ Returned_("step_reasoner") /\ Runs("step_reasoner") = 4 /\ Problem(last.pre) # ""
           => pc = "conclusion"
    /\ (Returned_("conclusion") /\ Problem(last.pre) # "")
           => /\ Runs("step_reasoner") = 4
              /\ last.pre.step_count = 4
              /\ Len(last.calls) = 1
              /\ KeptAll
              /\ Len(Added) = 1
              /\ Added[1].type = "ai"
              /\ StartsWith(Added[1].content, "[target] **Final Conclusion & Recommendation**")
              /\ InOrder(Added[1].content, StepTitles)

\* C12 as stated: in a reasoning run on one problem the 4th run of the stepper
\* leaves the state as it found it, and the step after it is the conclusion
\* step, which adds a block naming the four step titles in order.
C12_FourthStepperRunIsNoOp ==
    /\ (NthStepperRun(4) /\ last.ok)
           => /\ state = last.pre
              /\ last.calls = <<>>
    /\ ConclusionFollows

\* C12 as amended: the 4th run of the stepper is the fourth step (one call, the
\* Evaluation & Decision message added, the counter raised from 3 to 4), and
\* the step after it is the conclusion step, which adds a block naming the four
\* step titles in order.
C12_FourthStepperRunIsStepFour ==
    /\ (NthStepperRun(4) /\ fault_kind # "credential")
           => /\ Counter(last.pre) = 3
              /\ Len(last.calls) = 1
              /\ last.calls[1].template = 4
              /\ last.ok =>
                     /\ Counter(state) = 4
                     /\ Problem(state) = Problem(last.pre)
                     /\ Len(Added) = 1
                     /\ StartsWith(Added[1].content, StepHeaders[4])
    /\ ConclusionFollows

\* a run on a problem ended with the conclusion block after four steps
C12_Witness ==
    /\ Returned_("conclusion")
    /\ pc = "done"
    /\ trace = <<"coordinator", "step_reasoner", "step_reasoner", "step_reasoner",
                 "step_reasoner", "conclusion">>
    /\ Problem(state) = "Step by step: which job?"
    /\ InOrder(state.messages[Len(state.messages)].content, StepTitles)

\* C13: the step after the stepper depends on the step counter alone: the
\* stepper again exactly when the counter is below 4, the conclusion step
\* exactly when it is 4 or more, and never the end of the run.  (A run cut off
\* by the recursion limit takes no further step.)
C13_RouterReadsCounterOnly ==
    (Returned_("step_reasoner") /\ fault_kind # "recursion")
        => /\ pc \in {"step_reasoner", "conclusion"}
           /\ pc = "step_reasoner" <=> Counter(state) < 4
           /\ pc = "conclusion" <=> Counter(state) >= 4
           /\ pc # "done"

\* the router sent a run with a counter above 4 to the conclusion step
C13_Witness ==
    /\ Returned_("step_reasoner")
    /\ fault_kind = "none"
    /\ Counter(state) = 5
    /\ pc = "conclusion"

\* C14: run with a non-empty problem and a step counter of 4 or more (and a
\* credential), the stepper returns the state as it found it: it issues no LLM
\* call, adds no message and leaves the counter and the problem as they were.
C14_StepperNoOpAtFour ==
    (/\ last.node = "step_reasoner"
     /\ Problem(last.pre) # ""
     /\ Counter(last.pre) >= 4
     /\ fault_kind # "credential")
        => /\ last.ok
           /\ last.calls = <<>>
           /\ \A i \in 1..Len(llm_log) : llm_log[i].node # "step_reasoner"
           /\ state.messages = last.pre.messages
           /\ Counter(state) = Counter(last.pre)
           /\ Problem(state) = Problem(last.pre)
           /\ state = last.pre

\* the stepper ran at counter 4 on a problem and changed nothing
C14_Witness ==
    /\ Returned_("step_reasoner")
    /\ Problem(last.pre) = "Which laptop?"
    /\ Counter(last.pre) = 4
    /\ last.pre.messages # <<>>
    /\ state = last.pre
    /\ pc = "conclusion"

\* the classification call of the supervisor's most recent step returned a text
\* without the delimiter
NoDelimiter ==
    /\ last.node = "supervisor"
    /\ last.calls # <<>>
    /\ last.answer.ok
    /\ \A i \in 1..Len(last.answer.content) : SubSeq(last.answer.content, i, i) # "|"

\* C15: when the classification response has no "|", the supervisor decides on
\* general_agent with the generic reason, adds the handoff announcement to the
\* general team, and the run goes on to the general agent without a fault.
C15_NoDelimiterDefaultsToGeneral ==
    NoDelimiter
        => /\ last.ok
           /\ fault_kind = "none"
           /\ pc = "general_agent"
           /\ last.out = [active_agent |-> "general_agent", next_agent |-> "general_agent"]
           /\ KeptAll
           /\ Added = <<Body(AIMessage("I'm routing your request to our General Agent team. Unable to categorize, routing to general support"))>>

\* the response named the technical agent but had no delimiter
C15_Witness ==
    /\ NoDelimiter
    /\ last.answer.content = "technical_agent"
    /\ pc = "general_agent"
    /\ state.next_agent = "general_agent"

\* C16: the announcement the supervisor adds for a label is read back by the
\* reverse scan of the next turn as that same label, whatever the reason says.
C16_AnnouncementRoundTrips ==
    (/\ Returned_("supervisor")
     /\ last.calls # <<>>
     /\ last.out.next_agent \in Specialists)
        => scan_reversed(state.messages) = last.out.next_agent

\* the tools a specialist called in this invocation
Called(agent) ==
    {tool_log[i].tool : i \in {j \in 1..Len(tool_log) : tool_log[j].agent = agent}}

\* C17 as stated: no tool is available to more than one specialist: a tool one
\* specialist calls is in no other specialist's tool set.
C17_ToolSetsDisjoint ==
    "support" \in apps
        => \A a \in Specialists : \A b \in Specialists \ {a} :
               /\ agent_tools[a] \cap agent_tools[b] = {}
               /\ Called(a) \cap agent_tools[b] = {}

\* C17 as amended: the tool sets are disjoint apart from escalate_to_manager,
\* which all three specialists have, and check_account_status, which the
\* billing and the general specialist have; a specialist calls tools of its
\* own set only, and a tool it calls is in another specialist's set only if it
\* is one of these two.
C17_ToolSetsShareTwoTools ==
    "support" \in apps =>
    /\ \A a \in Specialists : \A b \in Specialists \ {a} :
           /\ agent_tools[a] \cap agent_tools[b]
                  = IF "technical_agent" \in {a, b}
                    THEN {"escalate_to_manager"}
                    ELSE {"escalate_to_manager", "check_account_status"}
           /\ Called(a) \cap agent_tools[b]
                  \subseteq {"escalate_to_manager", "check_account_status"}
           /\ "check_account_status" \in Called(a) \cap agent_tools[b]
                  => {a, b} = {"billing_agent", "general_agent"}
    /\ \A a \in Specialists :
           /\ Called(a) \subseteq agent_tools[a]
           /\ agent_tools[a] \ UNION {agent_tools[b] : b \in Specialists \ {a}} # {}

\* the billing specialist called a tool the general specialist has too
C17_Witness ==
    /\ pc = "done"
    /\ trace = <<"supervisor", "billing_agent">>
    /\ Called("billing_agent") = {"check_account_status"}
    /\ "check_account_status" \in agent_tools["general_agent"]

\* C18: without the credential neither graph is constructed, so that no step
\* of either workflow runs.
C18_NoCredentialNoGraph ==
    ~api_key
        => /\ pc # "startup" => apps = {}
           /\ trace = <<>>
           /\ last = NoStep

\* an external call of the most recent step raised
CallRaised == last.calls # <<>> /\ ~last.answer.ok

\* C19: when an external call of a step raises, no step catches it: the
\* invocation ends in a fault that reaches the caller, no later step runs, no
\* state record is returned and nothing of the run is stored.
C19_CallFaultReachesCaller ==
    CallRaised
        => /\ ~last.ok
           /\ fault_kind = "external"
           /\ pc = "fault" \/ (pc = "idle" /\ caller = "chat")
           /\ trace[Len(trace)] = last.node
           /\ llm_log[Len(llm_log)] = last.calls[Len(last.calls)]
           /\ state = last.pre
           /\ history = input

\* the third step call of a chat turn raised, and the chat showed the error
C19_Witness ==
    /\ CallRaised
    /\ last.node = "step_reasoner"
    /\ Runs("step_reasoner") = 3
    /\ caller = "chat"
    /\ pc = "idle"
    /\ Len(history) = Len(input)

\* a turn that follows a handoff and whose user message has no keyword
FollowingTurn ==
    /\ selected_system = "support"
    /\ Running
    /\ EndsWithUser(input)
    /\ \E i \in 1..(Len(input) - 1) :
           input[i].type = "ai" /\ Handed(input[i].content) \in Specialists
    /\ \A k \in billing_keywords \cup technical_keywords \cup general_keywords :
           ~Contains(lower(LatestText(input)), k)

\* the specialist the latest handoff announcement of the invoked list handed to
HandedTo ==
    LET at == {i \in 1..(Len(input) - 1) :
                  input[i].type = "ai" /\ StartsWith(input[i].content, ANNOUNCEMENT)}
    IN  Handed(input[CHOOSE i \in at : \A j \in at : j <= i].content)

\* C20: in every turn that follows a handoff to a specialist and whose user
\* message has no keyword, whatever the specialist replied before, the
\* supervisor issues no classification call and that specialist, and no other
\* node after the supervisor, handles the turn.
C20_StickyAcrossTurns ==
    FollowingTurn
        => /\ \A i \in 1..Len(llm_log) : llm_log[i].node # "supervisor"
           /\ \A i \in 1..Len(trace) :
                  trace[i] = IF i = 1 THEN "supervisor" ELSE HandedTo

\* the output of step i of this invocation: the text after the header of the
\* i-th step message the invocation added
StepOutput(i) ==
    strip(SubSeq(StepMessages[i].content, Len(StepHeaders[i]) + 1,
                 Len(StepMessages[i].content)))

\* C21: whatever the history holds, the four step texts the conclusion
\* synthesizer passes to its synthesis call are, in order, the outputs of
\* Steps 1 to 4 of the current invocation.
C21_SynthesisUsesThisRunsSteps ==
    (last.node = "conclusion" /\ last.calls # <<>> /\ Len(StepMessages) = 4)
        => /\ last.calls[1].problem = Problem(last.pre)
           /\ last.calls[1].steps = [i \in 1..4 |-> StepOutput(i)]

\* C22: the specialist the supervisor recovers is the one the most recent
\* handoff announcement before the current user message hands to; no other
\* assistant message and no earlier announcement has a say.
C22_RecoversLatestHandoff ==
    SupervisorRan => ActiveBefore = PreviouslyActive

\* C23: in the chat, after a successful turn the stored list is the list the
\* workflow returned, nothing lost and nothing twice, and the list the next
\* turn invokes is the stored list followed by the new user message.
C23_ChatThreadsTheList ==
    [][/\ (pc = "done" /\ pc' = "idle" /\ caller = "chat")
           => history' = state.messages
       /\ (pc = "idle" /\ pc' # "idle" /\ caller' = "chat")
           => /\ Len(input') = Len(history) + 1
              /\ SubSeq(input', 1, Len(history)) = AssignIds(history, MaxId(history))
              /\ input'[Len(input')].type = "human"
              /\ input'[Len(input')].id \notin Ids(history)
              /\ state'.messages = input']_vars

\* a support chat turn with a tool call was stored whole
C23_Witness ==
    /\ caller = "chat"
    /\ pc = "idle"
    /\ fault_kind = "none"
    /\ turns = 1
    /\ history = state.messages
    /\ Len(history) = Len(input) + 4
    /\ \E i \in 1..Len(history) : history[i].type = "tool"

\* C24: in a reasoning run started from a list that ends with a user message,
\* the conclusion step is reached only with the counter at 4 and at least 3
\* step-shaped messages in the list, and the run never adds the blocking
\* message.
C24_ConclusionNeverBlocked ==
    (selected_system = "reasoning" /\ Running /\ EndsWithUser(input))
        => /\ pc = "conclusion"
                  => Counter(state) = 4 /\ StepShapedCount(state.messages) >= 3
           /\ last.node = "conclusion"
                  => /\ Counter(last.pre) = 4
                     /\ StepShapedCount(last.pre.messages) >= 3
                     /\ last.calls # <<>>
           /\ \A i \in (Len(input) + 1)..Len(state.messages) :
                  state.messages[i].content # NEED_MORE_STEPS

\* the conclusion step ran on the four steps of the run and added its block
C24_Witness ==
    /\ selected_system = "reasoning"
    /\ EndsWithUser(input)
    /\ Returned_("conclusion")
    /\ Counter(last.pre) = 4
    /\ StepShapedCount(SubSeq(last.pre.messages, Len(input) + 1,
                              Len(last.pre.messages))) = 4
    /\ StartsWith(state.messages[Len(state.messages)].content, "[target]")

\* C25: run on an empty list or on a list whose latest message is not a user
\* message, the supervisor issues no classification call, adds exactly one
\* message, the greeting, and sets no routing decision; the general agent runs
\* next, by the default of route_to_agent.
C25_GreetingThenGeneralAgent ==
    /\ (last.node = "supervisor" /\ ~EndsWithUser(last.pre.messages))
           => /\ last.ok
              /\ last.calls = <<>>
              /\ llm_log = <<>>
              /\ KeptAll
              /\ Added = <<Body(AIMessage("Hello! How can I help you today?"))>>
              /\ last.out = <<>>
              /\ DOMAIN state = {"messages"}
              /\ pc = "general_agent"
    /\ (selected_system = "support" /\ Running /\ ~EndsWithUser(input) /\ Len(trace) >= 2)
           => trace = <<"supervisor", "general_agent">>

\* after a finished turn the list was invoked again without a new user
\* message: greeting, then the general agent
C25_Witness ==
    /\ selected_system = "support"
    /\ pc = "done"
    /\ Len(input) > 1
    /\ ~EndsWithUser(input)
    /\ trace = <<"supervisor", "general_agent">>
    /\ state.messages[Len(input) + 1].content = SUPPORT_GREETING
    /\ "next_agent" \notin DOMAIN state

=============================================================================
